---- MODULE Spec2Model ----
(***************************************************************************)
(* Geoconnex MCP server (src/main.py): four tools, each issuing one HTTP   *)
(* request and shaping the reply.  Texts (HTTP bodies, Python str values)  *)
(* are sequences of lexemes, parsed JSON values are tagged pairs, and      *)
(* every tool invocation is a process with its own frame of locals.        *)
(***************************************************************************)
EXTENDS Integers, Sequences, FiniteSets, TLC

\* ---------------------------------------------------------------- bounds
\* largest number of bindings in a response the endpoint produces
MaxBindings == 6
\* number of callers whose invocations may be in flight
NumProcs == 2

Procs == 1..NumProcs

\* ------------------------------------------------------- texts and lexemes
\* A text is a sequence of lexemes; a lexeme is a record [k, v].
P(c) == [k |-> "punct", v |-> c]
StrTok(s) == [k |-> "str", v |-> s]
NumTok(s) == [k |-> "num", v |-> s]
LitTok(s) == [k |-> "lit", v |-> s]
Chars(s) == [k |-> "chars", v |-> s]

\* ------------------------------------------------------------ Python values
PyNone == <<"None", <<>>>>
PyBool(b) == <<"bool", b>>
PyNum(s) == <<"num", s>>
PyStr(text) == <<"str", text>>
PyList(seq) == <<"list", seq>>
PyDict(f) == <<"dict", f>>
\* the type and the payload of a value
Tag(x) == x[1]
Val(x) == x[2]

\* the str holding the characters s (the empty str has no characters)
Str(s) == PyStr(IF s = "" THEN <<>> ELSE <<Chars(s)>>)
EmptyDict == PyDict(<<>>)
Dict1(k, x) == PyDict(k :> x)
Dict2(k1, x1, k2, x2) == PyDict((k1 :> x1) @@ (k2 :> x2))

\* an outcome of a Python expression or call: a value or a raised exception
Ret(x) == [kind |-> "return", exc |-> "", val |-> x]
Raise(e, text) == [kind |-> "raise", exc |-> e, val |-> PyStr(text)]
Pending == [kind |-> "pending", exc |-> "", val |-> PyNone]

\* bool(x), as `assert x` evaluates it
Truthy(x) ==
  CASE Tag(x) = "None" -> FALSE
    [] Tag(x) = "bool" -> Val(x)
    [] Tag(x) = "num" -> Val(x) # "0"
    [] Tag(x) = "str" -> Val(x) # <<>>
    [] Tag(x) = "list" -> Val(x) # <<>>
    [] Tag(x) = "dict" -> DOMAIN Val(x) # {}

\* `key in x` for a str key
Contains(key, x) ==
  CASE Tag(x) = "dict" -> Ret(PyBool(key \in DOMAIN Val(x)))
    [] Tag(x) = "list" -> Ret(PyBool(\E i \in 1..Len(Val(x)) : Val(x)[i] = Str(key)))
    [] Tag(x) = "str" -> Ret(PyBool(\E i \in 1..Len(Val(x)) : Val(x)[i] = Chars(key)))
    [] OTHER -> Raise("TypeError", <<Chars("argument is not iterable")>>)

\* `x[key]` for a str key
GetItem(x, key) ==
  CASE Tag(x) = "dict" -> IF key \in DOMAIN Val(x) THEN Ret(Val(x)[key])
                       ELSE Raise("KeyError", <<Chars(key)>>)
    [] Tag(x) \in {"list", "str"} ->
         Raise("TypeError", <<Chars("indices must be integers")>>)
    [] OTHER -> Raise("TypeError", <<Chars("object is not subscriptable")>>)

\* the order in which the keys of a dict are written and iterated
RECURSIVE KeyOrder(_)
KeyOrder(ks) ==
  IF ks = {} THEN <<>>
  ELSE LET k == CHOOSE k \in ks : TRUE IN <<k>> \o KeyOrder(ks \ {k})

\* the items `for res in x` visits, in order
Iterate(x) ==
  CASE Tag(x) = "list" -> Ret(PyList(Val(x)))
    [] Tag(x) = "dict" -> LET ks == KeyOrder(DOMAIN Val(x))
                       IN Ret(PyList([i \in 1..Len(ks) |-> Str(ks[i])]))
    [] Tag(x) = "str" -> Ret(PyList([i \in 1..Len(Val(x)) |-> PyStr(<<Val(x)[i]>>)]))
    [] OTHER -> Raise("TypeError", <<Chars("object is not iterable")>>)

\* ------------------------------------------------------- JSON, both ways
\* the endpoint's serialisation of a JSON value
RECURSIVE Dumps(_), DumpsElements(_), DumpsMembers(_, _)
Dumps(x) ==
  CASE Tag(x) = "None" -> <<LitTok("null")>>
    [] Tag(x) = "bool" -> <<LitTok(IF Val(x) THEN "true" ELSE "false")>>
    [] Tag(x) = "num" -> <<NumTok(Val(x))>>
    [] Tag(x) = "str" -> <<StrTok(IF Val(x) = <<>> THEN "" ELSE Val(x)[1].v)>>
    [] Tag(x) = "list" -> <<P("[")>> \o DumpsElements(Val(x)) \o <<P("]")>>
    [] Tag(x) = "dict" ->
         <<P("{")>> \o DumpsMembers(Val(x), KeyOrder(DOMAIN Val(x))) \o <<P("}")>>
DumpsElements(seq) ==
  IF seq = <<>> THEN <<>>
  ELSE Dumps(Head(seq))
       \o (IF Len(seq) > 1 THEN <<P(",")>> ELSE <<>>)
       \o DumpsElements(Tail(seq))
DumpsMembers(f, ks) ==
  IF ks = <<>> THEN <<>>
  ELSE <<StrTok(Head(ks)), P(":")>> \o Dumps(f[Head(ks)])
       \o (IF Len(ks) > 1 THEN <<P(",")>> ELSE <<>>)
       \o DumpsMembers(f, Tail(ks))

\* the JSON decoder behind response.json(): one value, nothing after it
ParseFail == [ok |-> FALSE, val |-> PyNone, rest |-> <<>>]
ParseOk(x, rest) == [ok |-> TRUE, val |-> x, rest |-> rest]
RECURSIVE ParseValue(_), ParseElements(_, _), ParseMembers(_, _)
ParseValue(ts) ==
  IF ts = <<>> THEN ParseFail
  ELSE LET h == Head(ts)
           r == Tail(ts)
       IN CASE h.k = "lit" ->
                 ParseOk(IF h.v = "null" THEN PyNone ELSE PyBool(h.v = "true"), r)
            [] h.k = "num" -> ParseOk(PyNum(h.v), r)
            [] h.k = "str" -> ParseOk(Str(h.v), r)
            [] h = P("[") ->
                 IF r # <<>> /\ Head(r) = P("]") THEN ParseOk(PyList(<<>>), Tail(r))
                 ELSE ParseElements(r, <<>>)
            [] h = P("{") ->
                 IF r # <<>> /\ Head(r) = P("}") THEN ParseOk(EmptyDict, Tail(r))
                 ELSE ParseMembers(r, <<>>)
            [] OTHER -> ParseFail
ParseElements(ts, acc) ==
  LET e == ParseValue(ts) IN
  IF ~e.ok \/ e.rest = <<>> THEN ParseFail
  ELSE LET sep == Head(e.rest) IN
       IF sep = P(",") THEN ParseElements(Tail(e.rest), Append(acc, e.val))
       ELSE IF sep = P("]") THEN ParseOk(PyList(Append(acc, e.val)), Tail(e.rest))
       ELSE ParseFail
ParseMembers(ts, acc) ==
  IF Len(ts) < 3 \/ ts[1].k # "str" \/ ts[2] # P(":") THEN ParseFail
  ELSE LET e == ParseValue(SubSeq(ts, 3, Len(ts))) IN
       IF ~e.ok \/ e.rest = <<>> THEN ParseFail
       ELSE LET sep == Head(e.rest)
                acc2 == (ts[1].v :> e.val) @@ acc
            IN IF sep = P(",") THEN ParseMembers(Tail(e.rest), acc2)
               ELSE IF sep = P("}") THEN ParseOk(PyDict(acc2), Tail(e.rest))
               ELSE ParseFail

\* --------------------------------------------------------- HTTP exchange
GEOCONNEX_GRAPH == "https://graph.geoconnex.us/"
url == "https://raw.githubusercontent.com/internetofwater/nabu/refs/heads/main/shacl_validator/shapes/geoconnex.ttl"

Tools == {"geoconnex_shacl_shape", "explore_geoconnex_db",
          "get_geoconnex_pid_from_river_name", "get_datasets_for_geoconnex_pid"}

\* the query text of get_geoconnex_pid_from_river_name
RiverNameQuery(river_name) ==
  << Chars("PREFIX hyf: PREFIX gsp: PREFIX schema: SELECT DISTINCT ?mainstem ?name ?wkt WHERE { BIND(\""),
     Chars(river_name),
     Chars("\" AS ?searchString) ?mainstem a hyf:HY_FlowPath ; schema:name ?name ; gsp:hasGeometry/gsp:asWKT ?wkt . FILTER(CONTAINS(LCASE(STR(?name)), LCASE(STR(?searchString)))) } ORDER BY ?name") >>

\* the query text of get_datasets_for_geoconnex_pid
DatasetsQuery(pid) ==
  << Chars("PREFIX schema: PREFIX gsp: PREFIX hyf: SELECT DISTINCT ?monitoringLocation ... ?wkt WHERE { VALUES ?mainstem { <"),
     Chars(pid),
     Chars("> } ... FILTER(REGEX(?datasetDescription, \"temperature\", \"i\")) } ORDER BY ?siteName LIMIT 5") >>

\* the request a tool issues: requests.get(url) or requests.post(GEOCONNEX_GRAPH, data=...)
Request(c) ==
  CASE c.tool = "geoconnex_shacl_shape" ->
         [method |-> "GET", url |-> url, data |-> <<>>]
    [] c.tool = "explore_geoconnex_db" ->
         [method |-> "POST", url |-> GEOCONNEX_GRAPH, data |-> <<Chars(c.arg)>>]
    [] c.tool = "get_geoconnex_pid_from_river_name" ->
         [method |-> "POST", url |-> GEOCONNEX_GRAPH, data |-> RiverNameQuery(c.arg)]
    [] c.tool = "get_datasets_for_geoconnex_pid" ->
         [method |-> "POST", url |-> GEOCONNEX_GRAPH, data |-> DatasetsQuery(c.arg)]

NoReply == [status |-> 0, text |-> <<>>]
\* the request got no HTTP answer (requests raises ConnectionError)
Refused == [status |-> -1, text |-> <<>>]

\* response.raise_for_status(): raises for 4xx and 5xx only
RaiseForStatus4xxOnly(response) ==
  IF 400 <= response.status /\ response.status < 500
  THEN Raise("HTTPError", <<Chars("Client Error")>>)
  ELSE Ret(PyNone)
raise_for_status(response) ==
  IF 400 <= response.status /\ response.status < 500
  THEN Raise("HTTPError", <<Chars("Client Error")>>)
  ELSE IF 500 <= response.status /\ response.status < 600
  THEN Raise("HTTPError", <<Chars("Server Error")>>)
  ELSE Ret(PyNone)

\* response.json()
json(response) ==
  LET r == ParseValue(response.text) IN
  IF r.ok /\ r.rest = <<>> THEN Ret(r.val)
  ELSE Raise("JSONDecodeError", <<Chars("Expecting value")>>)

\* f"Invalid JSON response from Geoconnex: {response.text}"
InvalidJsonMessageBare(text) == <<Chars("Invalid JSON response from Geoconnex: ")>>
InvalidJsonMessage(text) == <<Chars("Invalid JSON response from Geoconnex: ")>> \o text

\* the try/except of query_geoconnex
DecodeJson(response) ==
  LET j == json(response) IN
  IF j.kind = "raise" THEN Raise("ValueError", InvalidJsonMessage(response.text))
  ELSE j

query_geoconnex(response) ==
  LET s == raise_for_status(response) IN
  IF s.kind = "raise" THEN s ELSE DecodeJson(response)

\* ---------------------------------------------------------- result shapers
\* assert result; assert "results" in result
CheckedResultsStripped(result) == Ret(result)
CheckedResults(result) ==
  IF ~Truthy(result) THEN Raise("AssertionError", <<>>)
  ELSE LET c == Contains("results", result) IN
       IF c.kind = "raise" THEN c
       ELSE IF ~Val(c.val) THEN Raise("AssertionError", <<>>)
       ELSE Ret(result)

\* result["results"]["bindings"]
BindingsOf(result) ==
  LET r == GetItem(result, "results") IN
  IF r.kind = "raise" THEN r ELSE GetItem(r.val, "bindings")

\* the item the loop body runs on: the first iteration returns
LoopItemLast(items) == items[Len(items)]
LoopItem(items) == items[1]

NoPidFound == Str("No PID found")

PidShapeSoft(result) ==
  LET a == CheckedResults(result)
      b == BindingsOf(result)
      it == Iterate(b.val)
      m == GetItem(LoopItem(Val(it.val)), "mainstem")
      ok == /\ a.kind = "return" /\ b.kind = "return" /\ it.kind = "return"
            /\ Val(it.val) # <<>> /\ m.kind = "return"
            /\ GetItem(m.val, "value").kind = "return"
  IN IF ok THEN GetItem(m.val, "value") ELSE Ret(NoPidFound)
PidShape(result) ==
  LET a == CheckedResults(result) IN
  IF a.kind = "raise" THEN a
  ELSE LET b == BindingsOf(result) IN
  IF b.kind = "raise" THEN b
  ELSE LET it == Iterate(b.val) IN
  IF it.kind = "raise" THEN it
  ELSE IF Val(it.val) = <<>> THEN Ret(NoPidFound)
  ELSE LET m == GetItem(LoopItem(Val(it.val)), "mainstem") IN
  IF m.kind = "raise" THEN m ELSE GetItem(m.val, "value")

DatasetsShapeCapped(result) ==
  LET a == CheckedResults(result) IN
  IF a.kind = "raise" THEN a
  ELSE LET b == BindingsOf(result) IN
  IF b.kind = "return" /\ Tag(b.val) = "list" /\ Len(Val(b.val)) > 5
  THEN Ret(PyList(SubSeq(Val(b.val), 1, 5))) ELSE b
DatasetsShapeReversed(result) ==
  LET a == CheckedResults(result) IN
  IF a.kind = "raise" THEN a
  ELSE LET b == BindingsOf(result) IN
  IF b.kind = "return" /\ Tag(b.val) = "list"
  THEN Ret(PyList([i \in 1..Len(Val(b.val)) |-> Val(b.val)[Len(Val(b.val)) + 1 - i]]))
  ELSE b
DatasetsShape(result) ==
  LET a == CheckedResults(result) IN
  IF a.kind = "raise" THEN a ELSE BindingsOf(result)

\* what a tool does with the parsed result of query_geoconnex
ShapeOf(tool, result) ==
  CASE tool = "explore_geoconnex_db" -> Ret(result)
    [] tool = "get_geoconnex_pid_from_river_name" -> PidShape(result)
    [] tool = "get_datasets_for_geoconnex_pid" -> DatasetsShape(result)

\* ------------------------------------------------ the tools, run in one go
geoconnex_shacl_shape(response) ==
  LET s == raise_for_status(response) IN
  IF s.kind = "raise" THEN s ELSE Ret(PyStr(response.text))

explore_geoconnex_db(response) == query_geoconnex(response)

get_geoconnex_pid_from_river_name(response) ==
  LET q == query_geoconnex(response) IN
  IF q.kind = "raise" THEN q ELSE PidShape(q.val)

get_datasets_for_geoconnex_pid(response) ==
  LET q == query_geoconnex(response) IN
  IF q.kind = "raise" THEN q ELSE DatasetsShape(q.val)

\* the outcome of an invocation that runs alone and is answered with reply
Alone(c, reply) ==
  IF reply = Refused THEN Raise("ConnectionError", <<>>)
  ELSE CASE c.tool = "geoconnex_shacl_shape" -> geoconnex_shacl_shape(reply)
         [] c.tool = "explore_geoconnex_db" -> explore_geoconnex_db(reply)
         [] c.tool = "get_geoconnex_pid_from_river_name" ->
              get_geoconnex_pid_from_river_name(reply)
         [] c.tool = "get_datasets_for_geoconnex_pid" ->
              get_datasets_for_geoconnex_pid(reply)

\* ------------------------------------------------------------------ inputs
Queries == {"SELECT * WHERE { ?s ?p ?o } LIMIT 1", "ASK { ?s a hyf:HY_FlowPath }"}
RiverNames == {"Colorado", "Snake"}
PidArgs == {"https://geoconnex.us/ref/mainstems/123", "https://geoconnex.us/ref/mainstems/29559"}

CallOf(tool, arg) == [tool |-> tool, arg |-> arg]
NoCall == CallOf("", "")
Calls ==
  {CallOf("geoconnex_shacl_shape", "")}
  \cup {CallOf("explore_geoconnex_db", q) : q \in Queries}
  \cup {CallOf("get_geoconnex_pid_from_river_name", n) : n \in RiverNames}
  \cup {CallOf("get_datasets_for_geoconnex_pid", d) : d \in PidArgs}
ConcCalls ==
  {CallOf("geoconnex_shacl_shape", ""),
   CallOf("explore_geoconnex_db", "ASK { ?s a hyf:HY_FlowPath }"),
   CallOf("get_geoconnex_pid_from_river_name", "Snake"),
   CallOf("get_datasets_for_geoconnex_pid", "https://geoconnex.us/ref/mainstems/123")}

\* SPARQL-results rows the endpoint may send
Pid(i) == "https://geoconnex.us/ref/mainstems/" \o ToString(i)
Binding(i) ==
  Dict2("mainstem", Dict2("type", Str("uri"), "value", Str(Pid(i))),
        "name", Dict2("type", Str("literal"), "value", Str("River " \o ToString(i))))
Ascending(n) == [i \in 1..n |-> Binding(i)]
Descending(n) == [i \in 1..n |-> Binding(n + 1 - i)]
OddBindings ==
  { Dict1("name", Dict1("value", Str("Snake River"))),
    Dict1("mainstem", EmptyDict),
    Dict1("mainstem", Dict1("value", NoPidFound)),
    Str("row") }
ShortRows == {Binding(1)} \cup OddBindings
BindingLists ==
  {Ascending(n) : n \in 0..MaxBindings}
  \cup {Descending(n) : n \in 2..MaxBindings}
  \cup {<<a>> : a \in ShortRows}
  \cup {<<a, b>> : a \in ShortRows, b \in ShortRows}

ResultsDoc(rows) ==
  Dict2("head", Dict1("vars", PyList(<<Str("mainstem"), Str("name")>>)),
        "results", Dict1("bindings", PyList(rows)))

\* JSON documents of any other shape
OddDocs ==
  { EmptyDict, PyList(<<>>), PyNone, PyBool(FALSE), PyBool(TRUE),
    PyNum("0"), PyNum("7"), Str(""), Str("results"), Str("error"),
    PyList(<<Str("results")>>), PyList(<<Str("error")>>),
    Dict1("head", Dict1("vars", PyList(<<>>))),
    Dict1("boolean", PyBool(TRUE)),
    Dict1("results", EmptyDict),
    Dict1("results", PyNone),
    Dict1("results", PyList(<<>>)),
    Dict1("results", Dict1("bindings", PyNone)),
    Dict1("results", Dict1("bindings", EmptyDict)),
    Dict1("results", Dict1("bindings", Str(""))),
    Dict1("results", Dict1("bindings", Dict1("mainstem", Dict1("value", Str(Pid(1)))))) }

JsonDocs == {ResultsDoc(rows) : rows \in BindingLists} \cup OddDocs
JsonBodies == {Dumps(d) : d \in JsonDocs}
Html == <<Chars("<html>error</html>")>>
Truncated(text) == SubSeq(text, 1, Len(text) - 1)
NonJsonBodies ==
  { Html, <<>>, <<Chars("@prefix sh: <http://www.w3.org/ns/shacl#> .")>>,
    Truncated(Dumps(ResultsDoc(Ascending(1)))),
    Dumps(ResultsDoc(<<>>)) \o Html,
    <<P("["), NumTok("7"), P(","), P("]")>>,
    <<P("{"), StrTok("results"), P("}")>> }
Bodies == JsonBodies \cup NonJsonBodies

Statuses == {200, 204, 304, 404, 503}
ReplyOf(status, text) == [status |-> status, text |-> text]
Replies == {ReplyOf(s, b) : s \in Statuses, b \in Bodies}
ConcReplies ==
  {ReplyOf(s, b) : s \in {200, 404},
                   b \in {Dumps(ResultsDoc(<<>>)), Dumps(ResultsDoc(Ascending(1))), Html}}

\* ------------------------------------------------------------------- state
VARIABLES
  pc,        \* where each invocation stands
  call,      \* the tool and argument of each invocation
  wire,      \* the HTTP exchanges of each invocation, in order
  response,  \* the local `response` of each frame
  result,    \* the local `result` of each frame
  outcome    \* what each invocation hands to its caller

vars == <<pc, call, wire, response, result, outcome>>

Unset == <<"unset", <<>>>>

\* every invocation runs in a frame of its own: response and result are locals
FrameShared(p) == 1
Frame(p) == p

Init ==
  /\ pc = [p \in Procs |-> "idle"]
  /\ call = [p \in Procs |-> NoCall]
  /\ wire = [p \in Procs |-> <<>>]
  /\ response = [p \in Procs |-> NoReply]
  /\ result = [p \in Procs |-> Unset]
  /\ outcome = [p \in Procs |-> Pending]

Exchange(req) == [req |-> req, reply |-> NoReply]
Answered(exchanges, reply) ==
  [exchanges EXCEPT ![Len(exchanges)] = [@ EXCEPT !.reply = reply]]

\* the framework calls the tool; the tool builds its query and sends the request
Invoke(p, c) ==
  /\ pc[p] = "idle"
  /\ call' = [call EXCEPT ![p] = c]
  /\ wire' = [wire EXCEPT ![p] = Append(@, Exchange(Request(c)))]
  /\ pc' = [pc EXCEPT ![p] = "await"]
  /\ UNCHANGED <<response, result, outcome>>

\* requests.post / requests.get returns the endpoint's answer
Respond(p, reply) ==
  /\ pc[p] = "await"
  /\ wire' = [wire EXCEPT ![p] = Answered(@, reply)]
  /\ response' = [response EXCEPT ![Frame(p)] = reply]
  /\ pc' = [pc EXCEPT ![p] = "status"]
  /\ UNCHANGED <<call, result, outcome>>

\* requests.post / requests.get raises: no HTTP answer at all
ConnectionFailure(p) ==
  /\ pc[p] = "await"
  /\ wire' = [wire EXCEPT ![p] = Answered(@, Refused)]
  /\ outcome' = [outcome EXCEPT ![p] = Raise("ConnectionError", <<>>)]
  /\ pc' = [pc EXCEPT ![p] = "done"]
  /\ UNCHANGED <<call, response, result>>

\* response.raise_for_status()
CheckStatusRetry(p) ==
  /\ pc[p] = "status"
  /\ LET s == raise_for_status(response[Frame(p)]) IN
     IF s.kind = "raise"
     THEN /\ wire' = [wire EXCEPT ![p] = Append(@, Exchange(Request(call[p])))]
          /\ pc' = [pc EXCEPT ![p] = "await"]
          /\ UNCHANGED outcome
     ELSE /\ pc' = [pc EXCEPT ![p] = "decode"]
          /\ UNCHANGED <<wire, outcome>>
  /\ UNCHANGED <<call, response, result>>
CheckStatus(p) ==
  /\ pc[p] = "status"
  /\ LET s == raise_for_status(response[Frame(p)]) IN
     IF s.kind = "raise"
     THEN /\ outcome' = [outcome EXCEPT ![p] = s]
          /\ pc' = [pc EXCEPT ![p] = "done"]
     ELSE /\ pc' = [pc EXCEPT ![p] = "decode"]
          /\ UNCHANGED outcome
  /\ UNCHANGED <<call, wire, response, result>>

\* return response.text (shape fetcher) or response.json() (query_geoconnex)
Decode(p) ==
  /\ pc[p] = "decode"
  /\ IF call[p].tool = "geoconnex_shacl_shape"
     THEN /\ outcome' = [outcome EXCEPT ![p] = Ret(PyStr(response[Frame(p)].text))]
          /\ pc' = [pc EXCEPT ![p] = "done"]
          /\ UNCHANGED result
     ELSE LET j == DecodeJson(response[Frame(p)]) IN
          IF j.kind = "raise"
          THEN /\ outcome' = [outcome EXCEPT ![p] = j]
               /\ pc' = [pc EXCEPT ![p] = "done"]
               /\ UNCHANGED result
          ELSE /\ result' = [result EXCEPT ![Frame(p)] = j.val]
               /\ pc' = [pc EXCEPT ![p] = "shape"]
               /\ UNCHANGED outcome
  /\ UNCHANGED <<call, wire, response>>

\* the tool's own lines after query_geoconnex returned
Shape(p) ==
  /\ pc[p] = "shape"
  /\ outcome' = [outcome EXCEPT ![p] = ShapeOf(call[p].tool, result[Frame(p)])]
  /\ pc' = [pc EXCEPT ![p] = "done"]
  /\ UNCHANGED <<call, wire, response, result>>

\* the caller has the outcome; the frame and everything in it is dropped
Discard(p) ==
  /\ pc[p] = "done"
  /\ pc' = [pc EXCEPT ![p] = "idle"]
  /\ call' = [call EXCEPT ![p] = NoCall]
  /\ wire' = [wire EXCEPT ![p] = <<>>]
  /\ response' = [response EXCEPT ![Frame(p)] = NoReply]
  /\ result' = [result EXCEPT ![Frame(p)] = Unset]
  /\ outcome' = [outcome EXCEPT ![p] = Pending]

\* one invocation at a time: the synchronous, single-threaded server
NoneInFlight == \A q \in Procs : pc[q] = "idle"
InvokeAny(p) == \E c \in Calls : NoneInFlight /\ Invoke(p, c)
RespondAny(p) == \E reply \in Replies : Respond(p, reply)

Next ==
  \E p \in Procs :
    \/ InvokeAny(p)
    \/ RespondAny(p)
    \/ ConnectionFailure(p)
    \/ CheckStatus(p)
    \/ Decode(p)
    \/ Shape(p)
    \/ Discard(p)

Spec == Init /\ [][Next]_vars

\* invocations of several callers in flight together (tools run on worker threads)
ConcInvoke(p) == \E c \in ConcCalls : Invoke(p, c)
ConcRespond(p) == \E reply \in ConcReplies : Respond(p, reply)

ConcNext ==
  \E p \in Procs :
    \/ ConcInvoke(p)
    \/ ConcRespond(p)
    \/ ConnectionFailure(p)
    \/ CheckStatus(p)
    \/ Decode(p)
    \/ Shape(p)
    \/ Discard(p)

ConcSpec == Init /\ [][ConcNext]_vars

\* ----------------------------------------------------------- observations
Done(p) == pc[p] = "done"
Reply(p) == wire[p][Len(wire[p])].reply
Is2xx(status) == 200 <= status /\ status < 300
Returned(p) == Done(p) /\ outcome[p].kind = "return"
Raised(p) == Done(p) /\ outcome[p].kind = "raise"
ViaQuery(p) == call[p].tool \in Tools \ {"geoconnex_shacl_shape"}

TypeOK ==
  /\ pc \in [Procs -> {"idle", "await", "status", "decode", "shape", "done"}]
  /\ \A p \in Procs : Len(wire[p]) <= 1

\* the endpoint's text of each document, and of each result set
BodyOf == [d \in JsonDocs |-> Dumps(d)]
RowsBody == [rows \in BindingLists |-> Dumps(ResultsDoc(rows))]

IsHttpFailure(status) == 400 <= status /\ status < 600
IsDictWith(x, key) == Tag(x) = "dict" /\ key \in DOMAIN Val(x)
\* text occurs in whole as a contiguous part of message
Includes(message, text) ==
  \E i \in 1..(Len(message) + 1) :
    /\ i + Len(text) - 1 <= Len(message)
    /\ SubSeq(message, i, i + Len(text) - 1) = text
\* a row whose "mainstem" field has a "value"
Readable(row) ==
  /\ IsDictWith(row, "mainstem")
  /\ IsDictWith(Val(row)["mainstem"], "value")
MainstemValue(row) == Val(Val(row)["mainstem"])["value"]
PidTool == "get_geoconnex_pid_from_river_name"
DatasetsTool == "get_datasets_for_geoconnex_pid"

\* ------------------------------------------------------------------ claims

\* C1 (as stated): once the endpoint has answered with a status outside
\* 200..299, the invocation decodes and shapes nothing and ends raising
\* HTTPError, whatever the body is.
C1_NonSuccessAlwaysFails ==
  \A p \in Procs :
    (pc[p] \in {"status", "decode", "shape", "done"}
       /\ Reply(p) # Refused /\ ~Is2xx(Reply(p).status))
    => /\ pc[p] \in {"status", "done"}
       /\ result[p] = Unset
       /\ Done(p) => (outcome[p].kind = "raise" /\ outcome[p].exc = "HTTPError")

\* C1 (amended): once the endpoint has answered with a 4xx or 5xx status,
\* the invocation decodes and shapes nothing and ends raising HTTPError,
\* whatever the body is.
C1_HttpFailureAlwaysFails ==
  \A p \in Procs :
    (pc[p] \in {"status", "decode", "shape", "done"}
       /\ IsHttpFailure(Reply(p).status))
    => /\ pc[p] \in {"status", "done"}
       /\ result[p] = Unset
       /\ Done(p) => (outcome[p].kind = "raise" /\ outcome[p].exc = "HTTPError")

C1_Witness ==
  \E p \in Procs :
    /\ Done(p) /\ call[p].tool = PidTool
    /\ Reply(p) = ReplyOf(503, RowsBody[<<>>])
    /\ outcome[p].exc = "HTTPError"

\* C2: explore_geoconnex_db, answered 2xx with a JSON body, returns a str
\* that is exactly that body.
C2_ExploreReturnsBodyText ==
  \A p \in Procs :
    (Done(p) /\ call[p].tool = "explore_geoconnex_db"
       /\ Is2xx(Reply(p).status) /\ Reply(p).text \in JsonBodies)
    => outcome[p] = Ret(PyStr(Reply(p).text))

\* C3: a tool that goes through query_geoconnex, answered 2xx with a body
\* that is not JSON, raises ValueError (not HTTPError) whose message holds
\* the whole body, and returns nothing.
C3_NonJsonRaisesWithBody ==
  \A p \in Procs :
    (Done(p) /\ ViaQuery(p)
       /\ Is2xx(Reply(p).status) /\ Reply(p).text \in NonJsonBodies)
    => /\ outcome[p].kind = "raise"
       /\ outcome[p].exc = "ValueError"
       /\ Includes(Val(outcome[p].val), Reply(p).text)

C3_Witness ==
  \E p \in Procs :
    /\ Done(p) /\ call[p].tool = DatasetsTool
    /\ Reply(p) = ReplyOf(200, Html)
    /\ outcome[p].exc = "ValueError"
    /\ Includes(Val(outcome[p].val), Html)

\* C4: the PID lookup, answered 2xx with a result set, returns the mainstem
\* value of the first row whatever rows follow, and "No PID found" when
\* there are no rows.
C4_FirstMainstemOrSentinel ==
  \A p \in Procs :
    (Done(p) /\ call[p].tool = PidTool /\ Is2xx(Reply(p).status))
    => \A rows \in BindingLists :
         RowsBody[rows] = Reply(p).text
         => IF rows = <<>> THEN outcome[p] = Ret(NoPidFound)
            ELSE Readable(rows[1]) => outcome[p] = Ret(MainstemValue(rows[1]))

C4_Witness ==
  \E p \in Procs :
    /\ Done(p) /\ call[p].tool = PidTool
    /\ Reply(p) = ReplyOf(200, RowsBody[Descending(3)])
    /\ outcome[p] = Ret(Str(Pid(3)))

\* C5: the dataset lookup, answered 2xx with N <= 5 rows, returns exactly
\* those rows, in order, as a list of length N.
C5_RowsReturnedUnmodified ==
  \A p \in Procs :
    (Done(p) /\ call[p].tool = DatasetsTool /\ Is2xx(Reply(p).status))
    => \A rows \in BindingLists :
         (Len(rows) <= 5 /\ RowsBody[rows] = Reply(p).text)
         => outcome[p] = Ret(PyList(rows))

C5_Witness ==
  \E p \in Procs :
    /\ Done(p) /\ call[p].tool = DatasetsTool
    /\ Reply(p) = ReplyOf(200, RowsBody[Descending(5)])
    /\ outcome[p] = Ret(PyList(Descending(5)))

\* a JSON document that is empty or has no "results" key
LacksResults(d) == ~IsDictWith(d, "results")
\* ... and on which `"results" in result` is either an error or true
NotSearchable(d) ==
  \/ d = PyBool(TRUE)
  \/ Tag(d) = "num" /\ d # PyNum("0")
  \/ Tag(d) = "list" /\ \E i \in 1..Len(Val(d)) : Val(d)[i] = Str("results")
  \/ d = Str("results")

\* C6 (as stated): the PID and dataset lookups, answered 2xx with a JSON
\* document that is empty or has no "results" key, end in an
\* AssertionError and return nothing.
C6_MissingResultsAssertionFails ==
  \A p \in Procs :
    (Done(p) /\ call[p].tool \in {PidTool, DatasetsTool} /\ Is2xx(Reply(p).status))
    => \A d \in JsonDocs :
         (LacksResults(d) /\ BodyOf[d] = Reply(p).text)
         => (outcome[p].kind = "raise" /\ outcome[p].exc = "AssertionError")

\* C6 (amended): the PID and dataset lookups, answered 2xx with a JSON
\* document that is empty or has no "results" key, never return a value:
\* they end in an AssertionError, or in a TypeError when the document is
\* true, a non-zero number, or a list or string that holds "results".
C6_MissingResultsNeverReturns ==
  \A p \in Procs :
    (Done(p) /\ call[p].tool \in {PidTool, DatasetsTool} /\ Is2xx(Reply(p).status))
    => \A d \in JsonDocs :
         (LacksResults(d) /\ BodyOf[d] = Reply(p).text)
         => /\ outcome[p].kind = "raise"
            /\ outcome[p].exc = IF NotSearchable(d) THEN "TypeError"
                                ELSE "AssertionError"

C6_Witness ==
  \E p \in Procs :
    /\ Done(p) /\ call[p].tool = DatasetsTool
    /\ Reply(p) = ReplyOf(200, BodyOf[Dict1("head", Dict1("vars", PyList(<<>>)))])
    /\ outcome[p].exc = "AssertionError"

\* the rows of a document that has "results", when they form a list
HasRows(d) ==
  /\ IsDictWith(d, "results")
  /\ IsDictWith(Val(d)["results"], "bindings")
  /\ Tag(Val(Val(d)["results"])["bindings"]) = "list"
RowsOf(d) == Val(Val(Val(d)["results"])["bindings"])
\* "bindings" is there and holds nothing: an empty list, object or string
NoRows(d) ==
  /\ IsDictWith(d, "results")
  /\ IsDictWith(Val(d)["results"], "bindings")
  /\ Val(Val(d)["results"])["bindings"] \in {PyList(<<>>), EmptyDict, Str("")}
FirstRowUnreadable(d) ==
  HasRows(d) /\ RowsOf(d) # <<>> /\ ~Readable(RowsOf(d)[1])

\* C7 (as stated): the PID lookup returns "No PID found" only when the
\* answer was 2xx, JSON, with "results" and zero rows; after a non-2xx
\* status, a non-JSON body, a missing "results" or an unreadable first row
\* it raises.
C7_SentinelOnlyOn2xxNoRows ==
  \A p \in Procs :
    (Done(p) /\ call[p].tool = PidTool /\ Reply(p) # Refused)
    => /\ outcome[p] = Ret(NoPidFound)
          => /\ Is2xx(Reply(p).status)
             /\ \E d \in JsonDocs :
                  BodyOf[d] = Reply(p).text /\ HasRows(d) /\ RowsOf(d) = <<>>
       /\ ( \/ ~Is2xx(Reply(p).status)
            \/ Reply(p).text \in NonJsonBodies
            \/ \E d \in JsonDocs :
                 /\ BodyOf[d] = Reply(p).text
                 /\ LacksResults(d) \/ FirstRowUnreadable(d) )
          => outcome[p].kind = "raise"

\* C7 (amended): the PID lookup returns "No PID found" only when the status
\* was not 4xx/5xx, the body was JSON with "results", and the bindings were
\* empty or the first row's mainstem value was that very string; after a
\* 4xx/5xx status, a non-JSON body, a missing "results" or an unreadable
\* first row it raises.
C7_SentinelOnlyOnNoRows ==
  \A p \in Procs :
    (Done(p) /\ call[p].tool = PidTool /\ Reply(p) # Refused)
    => /\ outcome[p] = Ret(NoPidFound)
          => /\ ~IsHttpFailure(Reply(p).status)
             /\ \E d \in JsonDocs :
                  /\ BodyOf[d] = Reply(p).text
                  /\ \/ NoRows(d)
                     \/ /\ HasRows(d) /\ RowsOf(d) # <<>>
                        /\ Readable(RowsOf(d)[1])
                        /\ MainstemValue(RowsOf(d)[1]) = NoPidFound
       /\ ( \/ IsHttpFailure(Reply(p).status)
            \/ Reply(p).text \in NonJsonBodies
            \/ \E d \in JsonDocs :
                 /\ BodyOf[d] = Reply(p).text
                 /\ LacksResults(d) \/ FirstRowUnreadable(d) )
          => outcome[p].kind = "raise"

C7_Witness ==
  \E p \in Procs :
    /\ Done(p) /\ call[p].tool = PidTool
    /\ Reply(p) = ReplyOf(200, RowsBody[<<>>])
    /\ outcome[p] = Ret(NoPidFound)

C9_OutcomeAsIfAlone ==
  \A p \in Procs :
    /\ pc[p] \in {"status", "decode", "shape"} => response[p] = Reply(p)
    /\ Done(p) => outcome[p] = Alone(call[p], Reply(p))

C9_Witness ==
  \E p \in Procs, q \in Procs :
    /\ p # q /\ Done(p) /\ Done(q)
    /\ call[p].tool = PidTool /\ call[q].tool = PidTool
    /\ Reply(p) = ReplyOf(200, RowsBody[<<>>])
    /\ Reply(q) = ReplyOf(200, RowsBody[Ascending(1)])
    /\ outcome[p] = Ret(NoPidFound)
    /\ outcome[q] = Ret(Str(Pid(1)))

\* C10: the 5-row cap is in the query text only: the dataset lookup,
\* answered 2xx with N > 5 rows, returns all N rows in order.
C10_NoClientSideCap ==
  \A p \in Procs :
    (Done(p) /\ call[p].tool = DatasetsTool /\ Is2xx(Reply(p).status))
    => \A rows \in BindingLists :
         (Len(rows) > 5 /\ RowsBody[rows] = Reply(p).text)
         => /\ wire[p][1].req.data = DatasetsQuery(call[p].arg)
            /\ outcome[p].kind = "return"
            /\ Val(outcome[p].val) = rows
            /\ Len(Val(outcome[p].val)) = Len(rows)

C10_Witness ==
  \E p \in Procs :
    /\ Done(p) /\ call[p].tool = DatasetsTool
    /\ Reply(p) = ReplyOf(200, RowsBody[Ascending(6)])
    /\ outcome[p].kind = "return"
    /\ Len(Val(outcome[p].val)) = 6

====
